---- MODULE Spec2Model ----
(***************************************************************************)
(* State-machine model of the myskl backend's storage-backed workflows:    *)
(* the conversation router (routes/chat.ts), the connection-request        *)
(* workflow (routes/users.ts), the roadmap routes (routes/roadmaps.ts,     *)
(* routes/admin.ts), the message routes, the realtime layer                *)
(* (utils/socket.ts), account creation and the picture and image uploads   *)
(* (routes/users.ts, routes/projects.ts, services/s3.ts).                  *)
(* Every `await db...` or S3 call of a handler is one atomic               *)
(* step of the storage layer; handlers of different requests interleave    *)
(* between those steps, as they do on the Node event loop.                 *)
(***************************************************************************)
EXTENDS Integers, FiniteSets, Sequences, TLC

\* ---------------------------------------------------------------- bounds
NUsers == 2             \* rows of the users table: ids 1..NUsers
MaxConversations == 3   \* rows the conversations table may hold
MaxRequests == 2        \* rows the connection_requests table may hold
MaxConnections == 2     \* connection rows ever inserted (serial ids 1..)
MaxTasks == 3           \* roadmap_tasks rows ever inserted (serial ids 1..)
MaxUserRoadmaps == 1    \* rows the user_roadmaps table may hold
NChatUsers == 3         \* rows of the users table in the messaging runs
MaxMessages == 2        \* rows the messages table may hold

Procs == {"h1", "h2"}   \* request handlers that may be in flight together
Users == 1..NUsers

\* ------------------------------------------------------ JSON body values
\* A request body is untyped JSON: an id arrives as a number or as a
\* string.  Num(0) stands for every falsy value (0, null, undefined, "").
Num(n) == [t |-> "number", v |-> n]
Str(n) == [t |-> "string", v |-> n]
JsonIds == {Num(n) : n \in 0..NUsers} \cup {Str(n) : n \in 0..NUsers}
\* The ids the connection workflow is explored with: numbers, one of them
\* (NUsers + 1) the id of no user.
JsonNumbers == {Num(n) : n \in 0..(NUsers + 1)}

\* `!x` of JavaScript: 0, null, undefined and "" are falsy; "0" is not.
Falsy(x) == x.t = "number" /\ x.v = 0

\* `a === b`: no coercion, so the string "1" and the number 1 differ.
StrictEquals(a, b) == a.t = b.t /\ a.v = b.v

\* Number(x), the coercion of Math.min/Math.max and of an integer column.
ToNumber(x) == x.v

\* Math.min / Math.max, applied to the coerced numbers.
MathMinFirst(a, b) == a
MathMin(a, b) == IF a <= b THEN a ELSE b
MathMax(a, b) == IF a >= b THEN a ELSE b

\* ----------------------------------------------------------------- state
VARIABLES
    conversations,     \* table conversations: set of [id, user1Id, user2Id]
    requests,          \* table connection_requests: sequence, index = id, of
                       \* [senderId, receiverId, status, wasAccepted (history)]
    connections,       \* table connections: set of [id, user1Id, user2Id, via]
    nextConnId,        \* serial of connections.id
    uniqueConnections, \* whether the migration's idx_unique_connections exists
    pc,                \* per handler: the await it is suspended at
    loc,               \* per handler: its local variables
    resp,              \* the response the last step sent (NoResp: none)
    lastConv,          \* history: per pair, the conversation id returned by
                       \* the last POST /conversations that ran alone (0: none)
    overlapped,        \* history: handlers whose POST /conversations ran
                       \* while another one was in flight
    roadmapTasks,      \* table roadmap_tasks: set of [id, roadmapId]
    nextTaskId,        \* serial of roadmap_tasks.id
    userRoadmaps,      \* table user_roadmaps: sequence, index = id, of
                       \* [userId, roadmapId]
    userTaskProgress,  \* table user_task_progress: set of
                       \* [userId, taskId, userRoadmapId, status]
    startPc,           \* per handler of POST /:id/start: the await it is at
    startLoc,          \* per handler of POST /:id/start: its local variables
    getLoc,            \* the handler of GET /users/:userId: its locals
    roadResp,          \* the response the last roadmap step sent
    messages,          \* table messages: sequence, index = id, of
                       \* [conversationId, senderId, isRead]
    chatResp,          \* the response the last message route step sent
    sockets,           \* io.sockets.sockets: the connected sockets, in
                       \* connection order
    sockUser,          \* per socket: socket.userId (0: undefined)
    sockInfo,          \* per socket: whether socket.userInfo is set
    convRooms,         \* per socket: the conversation:<id> rooms it is in
    userRooms,         \* per socket: the user:<id> rooms it is in
    onlineUsers,       \* the onlineUsers map: userId -> socket ("none": no entry)
    authedAs,          \* history: per socket, the user ids it has ever
                       \* authenticated as
    sendLoc,           \* the send-message handler in flight: its locals
    outbox,            \* the events the last step emitted, in order
    users,             \* table users: sequence, index = id, of [username,
                       \* password, googleId, email, authProvider,
                       \* profilePicture, profilePictureKey,
                       \* googleProfilePicture]
    projects,          \* table projects: sequence, index = id, of
                       \* [userId, imageUrl, imageKey]
    blobs,             \* the keys of the objects in the S3 bucket
    nextKey,           \* the next key generateFileKey returns
    acctPc,            \* per handler of a users or projects route: the
                       \* await it is suspended at
    acctLoc,           \* per handler of a users or projects route: its
                       \* local variables
    acctResp           \* the response the last users or projects step sent

roadVars == <<roadmapTasks, nextTaskId, userRoadmaps, userTaskProgress,
              startPc, startLoc, getLoc, roadResp>>

chatVars == <<messages, chatResp, sockets, sockUser, sockInfo, convRooms,
              userRooms, onlineUsers, authedAs, sendLoc, outbox>>

acctVars == <<users, projects, blobs, nextKey, acctPc, acctLoc, acctResp>>

\* The state of the subsystems other than conversations and connections.
otherVars == <<roadVars, chatVars, acctVars>>

vars == <<conversations, requests, connections, nextConnId,
          uniqueConnections, pc, loc, resp, lastConv, overlapped, otherVars>>

coreVars == <<conversations, requests, connections, nextConnId,
              uniqueConnections, pc, loc, resp, lastConv, overlapped>>

\* What no roadmap route touches.
outsideRoad == <<coreVars, chatVars, acctVars>>

convVars == <<conversations, lastConv, overlapped>>
connVars == <<requests, connections, nextConnId>>

Pairs == {{a, b} : a, b \in Users} \ {{a} : a \in Users}

NoLoc == [user1Id |-> 0, user2Id |-> 0, senderId |-> 0, receiverId |-> 0,
          requestId |-> 0, prev |-> 0]
NoResp == [op |-> "none", status |-> 0, id |-> 0, prev |-> 0]

\* c.json(body, status): the handler returns and its locals are gone.
Respond(p, op, status, id, prev) ==
    /\ pc' = [pc EXCEPT ![p] = "idle"]
    /\ loc' = [loc EXCEPT ![p] = NoLoc]
    /\ resp' = [op |-> op, status |-> status, id |-> id, prev |-> prev]

\* No other handler is suspended at an await.
Quiet(p) == \A r \in Procs \ {p} : pc[r] = "idle"
InFlight == {r \in Procs : pc[r] # "idle"}

\* ------------------------------------------------- POST /conversations
\* where (user1Id = a AND user2Id = b) OR (user1Id = b AND user2Id = a)
ExistingConversation(a, b) ==
    {c \in conversations :
        \/ c.user1Id = ToNumber(a) /\ c.user2Id = ToNumber(b)
        \/ c.user1Id = ToNumber(b) /\ c.user2Id = ToNumber(a)}

\* History: what the previous call for this pair returned, when that call
\* and everything since ran one request at a time.
PrevConv(p, a, b) ==
    IF Quiet(p) /\ {ToNumber(a), ToNumber(b)} \in Pairs
    THEN lastConv[{ToNumber(a), ToNumber(b)}] ELSE 0

SetLastConv(q, id) ==
    lastConv' = [x \in Pairs |-> IF x = q THEN id ELSE lastConv[x]]

NoteOverlap(p) ==
    /\ lastConv' = [x \in Pairs |-> 0]
    /\ overlapped' = overlapped \cup InFlight \cup {p}

\* Body validation, then the select ... limit(1).  The select has no
\* ORDER BY: with several matching rows the storage layer returns any one.
ConvCheck(p, user1Id, user2Id) ==
    /\ pc[p] = "idle"
    /\ IF Falsy(user1Id) \/ Falsy(user2Id)
       THEN /\ Respond(p, "conv", 400, 0, 0)
            /\ UNCHANGED convVars
       ELSE IF StrictEquals(user1Id, user2Id)
       THEN /\ Respond(p, "conv", 400, 0, 0)
            /\ UNCHANGED convVars
       ELSE IF ExistingConversation(user1Id, user2Id) # {}
       THEN \E c \in ExistingConversation(user1Id, user2Id) :
               /\ Respond(p, "conv", 200, c.id, PrevConv(p, user1Id, user2Id))
               /\ IF Quiet(p)
                  THEN /\ SetLastConv({c.user1Id, c.user2Id}, c.id)
                       /\ UNCHANGED overlapped
                  ELSE /\ lastConv' = [x \in Pairs |-> 0]
                       /\ overlapped' = overlapped \cup InFlight
               /\ UNCHANGED conversations
       ELSE /\ pc' = [pc EXCEPT ![p] = "conv_insert"]
            /\ loc' = [loc EXCEPT ![p] =
                  [NoLoc EXCEPT
                      !.user1Id = MathMin(ToNumber(user1Id), ToNumber(user2Id)),
                      !.user2Id = MathMax(ToNumber(user1Id), ToNumber(user2Id)),
                      !.prev = PrevConv(p, user1Id, user2Id)]]
            /\ IF Quiet(p)
               THEN UNCHANGED <<lastConv, overlapped>>
               ELSE NoteOverlap(p)
            /\ resp' = NoResp
            /\ UNCHANGED conversations
    /\ UNCHANGED <<connVars, uniqueConnections, otherVars>>

\* insert(conversations).values({min, max}).returning(): the table has no
\* unique constraint on the pair; the foreign keys need both users to exist.
ConvInsert(p) ==
    /\ pc[p] = "conv_insert"
    /\ overlapped' = overlapped \ {p}
    /\ IF loc[p].user1Id \in Users /\ loc[p].user2Id \in Users
       THEN /\ Cardinality(conversations) < MaxConversations
            /\ LET id == Cardinality(conversations) + 1
                   q == {loc[p].user1Id, loc[p].user2Id}
               IN /\ conversations' = conversations \cup
                        {[id |-> id, user1Id |-> loc[p].user1Id,
                          user2Id |-> loc[p].user2Id]}
                  /\ IF p \notin overlapped /\ q \in Pairs
                     THEN SetLastConv(q, id)
                     ELSE UNCHANGED lastConv
                  /\ Respond(p, "conv", 200, id, loc[p].prev)
       ELSE /\ Respond(p, "conv", 500, 0, 0)
            /\ UNCHANGED <<conversations, lastConv>>
    /\ UNCHANGED <<connVars, uniqueConnections, otherVars>>

\* Any awaited storage call may reject (storage unavailable), a handler's
\* first one included: the catch block answers 500 and the call wrote nothing.
DbError(p) ==
    /\ Respond(p, "error", 500, 0, 0)
    /\ overlapped' = overlapped \ {p}
    /\ UNCHANGED <<conversations, lastConv, connVars, uniqueConnections, otherVars>>

\* -------------------------------------------- POST /connections/request
\* Rows of either direction between a and b.
ConnectionsBetween(a, b) ==
    {c \in connections :
        \/ c.user1Id = a /\ c.user2Id = b
        \/ c.user1Id = b /\ c.user2Id = a}

\* Ids of the pending requests of either direction between a and b.
PendingBetween(a, b) ==
    {i \in 1..Len(requests) :
        /\ requests[i].status = "pending"
        /\ \/ requests[i].senderId = a /\ requests[i].receiverId = b
           \/ requests[i].senderId = b /\ requests[i].receiverId = a}

\* Body validation, then select from users where id = receiverId.
ReqCheckReceiver(p, senderId, receiverId) ==
    /\ pc[p] = "idle"
    /\ IF Falsy(senderId) \/ Falsy(receiverId)
       THEN Respond(p, "request", 400, 0, 0)
       ELSE IF StrictEquals(senderId, receiverId)
       THEN Respond(p, "request", 400, 0, 0)
       ELSE IF ToNumber(receiverId) \notin Users
       THEN Respond(p, "request", 404, 0, 0)
       ELSE /\ pc' = [pc EXCEPT ![p] = "req_connected"]
            /\ loc' = [loc EXCEPT ![p] =
                  [NoLoc EXCEPT !.senderId = ToNumber(senderId),
                                !.receiverId = ToNumber(receiverId)]]
            /\ resp' = NoResp
    /\ UNCHANGED <<convVars, connVars, uniqueConnections, otherVars>>

\* select from connections, either direction: 409 when already connected.
ReqCheckConnected(p) ==
    /\ pc[p] = "req_connected"
    /\ IF ConnectionsBetween(loc[p].senderId, loc[p].receiverId) # {}
       THEN Respond(p, "request", 409, 0, 0)
       ELSE /\ pc' = [pc EXCEPT ![p] = "req_pending"]
            /\ resp' = NoResp
            /\ UNCHANGED loc
    /\ UNCHANGED <<convVars, connVars, uniqueConnections, otherVars>>

\* select the pending requests of either direction: 409 when there is one.
ReqCheckPending(p) ==
    /\ pc[p] = "req_pending"
    /\ IF PendingBetween(loc[p].senderId, loc[p].receiverId) # {}
       THEN Respond(p, "request", 409, 0, 0)
       ELSE /\ pc' = [pc EXCEPT ![p] = "req_insert"]
            /\ resp' = NoResp
            /\ UNCHANGED loc
    /\ UNCHANGED <<convVars, connVars, uniqueConnections, otherVars>>

\* insert(connectionRequests).values({senderId, receiverId, 'pending'}):
\* the sender's foreign key is the only check the storage layer makes.
ReqInsert(p) ==
    /\ pc[p] = "req_insert"
    /\ IF loc[p].senderId \in Users
       THEN /\ Len(requests) < MaxRequests
            /\ requests' = Append(requests,
                  [senderId |-> loc[p].senderId,
                   receiverId |-> loc[p].receiverId,
                   status |-> "pending", wasAccepted |-> FALSE])
            /\ Respond(p, "request", 200, Len(requests) + 1, 0)
       ELSE /\ Respond(p, "request", 500, 0, 0)
            /\ UNCHANGED requests
    /\ UNCHANGED <<convVars, connections, nextConnId, uniqueConnections, otherVars>>

\* ------------------------------------ PUT /connections/accept/:requestId
\* The checks both accept and reject make on the request they select:
\* 0 when the handler may go on, else the status it answers.
RequestRefusal(requestId, userId) ==
    IF Falsy(userId) THEN 400
    ELSE IF requestId \notin 1..Len(requests) THEN 404
    ELSE IF ~StrictEquals(Num(requests[requestId].receiverId), userId) THEN 403
    ELSE IF requests[requestId].status # "pending" THEN 400
    ELSE 0

AcceptFind(p, requestId, userId) ==
    /\ pc[p] = "idle"
    /\ IF RequestRefusal(requestId, userId) # 0
       THEN Respond(p, "accept", RequestRefusal(requestId, userId), 0, 0)
       ELSE /\ pc' = [pc EXCEPT ![p] = "accept_insert"]
            /\ loc' = [loc EXCEPT ![p] =
                  [NoLoc EXCEPT
                      !.requestId = requestId,
                      !.user1Id = MathMin(requests[requestId].senderId,
                                          requests[requestId].receiverId),
                      !.user2Id = MathMax(requests[requestId].senderId,
                                          requests[requestId].receiverId)]]
            /\ resp' = NoResp
    /\ UNCHANGED <<convVars, connVars, uniqueConnections, otherVars>>

\* insert(connections).values({user1Id, user2Id}); idx_unique_connections,
\* where the migration created it, rejects a second row for the pair.
AcceptInsert(p) ==
    /\ pc[p] = "accept_insert"
    /\ IF uniqueConnections /\
          \E c \in connections :
              c.user1Id = loc[p].user1Id /\ c.user2Id = loc[p].user2Id
       THEN /\ Respond(p, "accept", 500, 0, 0)
            /\ UNCHANGED <<connections, nextConnId>>
       ELSE /\ nextConnId <= MaxConnections
            /\ connections' = connections \cup
                  {[id |-> nextConnId, user1Id |-> loc[p].user1Id,
                    user2Id |-> loc[p].user2Id, via |-> loc[p].requestId]}
            /\ nextConnId' = nextConnId + 1
            /\ pc' = [pc EXCEPT ![p] = "accept_update"]
            /\ resp' = NoResp
            /\ UNCHANGED loc
    /\ UNCHANGED <<convVars, requests, uniqueConnections, otherVars>>

\* update(connectionRequests).set({status: 'accepted'}).where(id = requestId)
AcceptUpdate(p) ==
    /\ pc[p] = "accept_update"
    /\ requests' = [requests EXCEPT
          ![loc[p].requestId].status = "accepted",
          ![loc[p].requestId].wasAccepted = TRUE]
    /\ Respond(p, "accept", 200, 0, 0)
    /\ UNCHANGED <<convVars, connections, nextConnId, uniqueConnections, otherVars>>

\* ------------------------------------ PUT /connections/reject/:requestId
RejectFind(p, requestId, userId) ==
    /\ pc[p] = "idle"
    /\ IF RequestRefusal(requestId, userId) # 0
       THEN Respond(p, "reject", RequestRefusal(requestId, userId), 0, 0)
       ELSE /\ pc' = [pc EXCEPT ![p] = "reject_update"]
            /\ loc' = [loc EXCEPT ![p] = [NoLoc EXCEPT !.requestId = requestId]]
            /\ resp' = NoResp
    /\ UNCHANGED <<convVars, connVars, uniqueConnections, otherVars>>

\* update(connectionRequests).set({status: 'rejected'}).where(id = requestId)
RejectUpdate(p) ==
    /\ pc[p] = "reject_update"
    /\ requests' = [requests EXCEPT ![loc[p].requestId].status = "rejected"]
    /\ Respond(p, "reject", 200, 0, 0)
    /\ UNCHANGED <<convVars, connections, nextConnId, uniqueConnections, otherVars>>

\* ------------------------------------- DELETE /connections/disconnect
\* A disconnect that also took the pair's accepted requests back to pending.
DisconnectReopening(p, userId, otherUserId) ==
    /\ pc[p] = "idle"
    /\ connections' = connections \
          ConnectionsBetween(ToNumber(userId), ToNumber(otherUserId))
    /\ requests' = [i \in DOMAIN requests |->
          IF /\ requests[i].status = "accepted"
             /\ {requests[i].senderId, requests[i].receiverId}
                   = {ToNumber(userId), ToNumber(otherUserId)}
          THEN [requests[i] EXCEPT !.status = "pending"]
          ELSE requests[i]]
    /\ Respond(p, "disconnect", 200, 0, 0)
    /\ UNCHANGED <<convVars, nextConnId, uniqueConnections, otherVars>>

\* Body validation, then one delete ... returning of either direction.
Disconnect(p, userId, otherUserId) ==
    /\ pc[p] = "idle"
    /\ IF Falsy(userId) \/ Falsy(otherUserId)
       THEN /\ Respond(p, "disconnect", 400, 0, 0)
            /\ UNCHANGED connections
       ELSE IF StrictEquals(userId, otherUserId)
       THEN /\ Respond(p, "disconnect", 400, 0, 0)
            /\ UNCHANGED connections
       ELSE LET gone == ConnectionsBetween(ToNumber(userId), ToNumber(otherUserId))
            IN /\ connections' = connections \ gone
               /\ Respond(p, "disconnect", IF gone = {} THEN 404 ELSE 200, 0, 0)
    /\ UNCHANGED <<convVars, requests, nextConnId, uniqueConnections, otherVars>>

\* ---------------------------------------------------------------- roadmaps
\* The roadmaps table is not written by the routes modelled here: roadmap 1
\* exists, and RoadmapIds adds an id that is the id of no roadmap.
Roadmaps == {1}
\* Handlers of POST /:id/start that may be in flight.
StartProcs == {"h1"}
RoadmapIds == {1, 2}
\* The ids POST /:id/start is explored with; NUsers + 1 is no user's id.
RoadUserIds == 1..(NUsers + 1)
\* PUT /task-progress/:id/status stores the body's status as it comes.
StatusInputs == {"pending", "in_progress", "completed", "archived"}

NoStart == [roadmapId |-> 0, userId |-> 0, userRoadmapId |-> 0, tasks |-> {}]
NoGet == [userRoadmapId |-> 0, total |-> -1]
NoRoadResp == [op |-> "none", status |-> 0, userRoadmapId |-> 0,
               completedTasks |-> 0, totalTasks |-> 0,
               progressPercentage |-> 0]

RoadRespond(op, status) ==
    roadResp' = [NoRoadResp EXCEPT !.op = op, !.status = status]

\* select ... from roadmap_tasks where roadmapId = id
TasksOf(id) == {t \in roadmapTasks : t.roadmapId = id}

\* select ... from user_task_progress where userRoadmapId = ur
ProgressOf(ur) == {r \in userTaskProgress : r.userRoadmapId = ur}

\* ... and status = 'completed'
CompletedOf(ur) == {r \in ProgressOf(ur) : r.status = "completed"}

\* tasks.map(task => ({ userId, taskId: task.id, userRoadmapId })); the
\* status column defaults to 'pending'.
OneProgressEntry(userId, tasks, userRoadmapId) ==
    {[userId |-> userId, taskId |-> t, userRoadmapId |-> userRoadmapId,
      status |-> "pending"] : t \in {CHOOSE x \in tasks : TRUE}}
TaskProgressEntries(userId, tasks, userRoadmapId) ==
    {[userId |-> userId, taskId |-> t, userRoadmapId |-> userRoadmapId,
      status |-> "pending"] : t \in tasks}

\* Math.round(n / d) for n >= 0 and d > 0: the integer nearest to the
\* quotient, a half rounding up.
MathFloor(n, d) == n \div d
MathRound(n, d) == (2 * n + d) \div (2 * d)

\* totalTasks.length > 0
\*   ? Math.round((completedTasks.length / totalTasks.length) * 100) : 0
ProgressPercentage(completed, total) ==
    IF total > 0 THEN MathRound(completed * 100, total) ELSE 0

\* POST /:id/start, first await: does the user already have this roadmap?
StartCheck(p, id, userId) ==
    /\ startPc[p] = "idle"
    /\ IF \E i \in 1..Len(userRoadmaps) :
             /\ userRoadmaps[i].userId = userId
             /\ userRoadmaps[i].roadmapId = id
       THEN /\ RoadRespond("start", 400)
            /\ UNCHANGED <<startPc, startLoc>>
       ELSE /\ startPc' = [startPc EXCEPT ![p] = "start_insert"]
            /\ startLoc' = [startLoc EXCEPT ![p] =
                  [NoStart EXCEPT !.roadmapId = id, !.userId = userId]]
            /\ roadResp' = NoRoadResp
    /\ UNCHANGED <<roadmapTasks, nextTaskId, userRoadmaps, userTaskProgress,
                   getLoc, outsideRoad>>

\* Second await: insert the user_roadmaps row.  Both columns are foreign
\* keys; a row for no user or no roadmap is rejected and the catch answers 500.
StartInsertRoadmap(p) ==
    /\ startPc[p] = "start_insert"
    /\ IF startLoc[p].userId \in Users /\ startLoc[p].roadmapId \in Roadmaps
       THEN /\ Len(userRoadmaps) < MaxUserRoadmaps
            /\ userRoadmaps' = Append(userRoadmaps,
                  [userId |-> startLoc[p].userId,
                   roadmapId |-> startLoc[p].roadmapId])
            /\ startPc' = [startPc EXCEPT ![p] = "start_tasks"]
            /\ startLoc' = [startLoc EXCEPT
                  ![p].userRoadmapId = Len(userRoadmaps) + 1]
            /\ roadResp' = NoRoadResp
       ELSE /\ startPc' = [startPc EXCEPT ![p] = "idle"]
            /\ startLoc' = [startLoc EXCEPT ![p] = NoStart]
            /\ RoadRespond("start", 500)
            /\ UNCHANGED userRoadmaps
    /\ UNCHANGED <<roadmapTasks, nextTaskId, userTaskProgress, getLoc,
                   outsideRoad>>

\* Third await: select the roadmap's tasks.
StartSelectTasks(p) ==
    /\ startPc[p] = "start_tasks"
    /\ startPc' = [startPc EXCEPT ![p] = "start_progress"]
    /\ startLoc' = [startLoc EXCEPT
          ![p].tasks = {t.id : t \in TasksOf(startLoc[p].roadmapId)}]
    /\ roadResp' = NoRoadResp
    /\ UNCHANGED <<roadmapTasks, nextTaskId, userRoadmaps, userTaskProgress,
                   getLoc, outsideRoad>>

\* Fourth await: one multi-row insert of the progress entries.  values([])
\* throws for the empty list, and a task deleted since the select breaks the
\* taskId foreign key; both end in the catch, with the user_roadmaps row kept.
StartInsertProgress(p) ==
    /\ startPc[p] = "start_progress"
    /\ startPc' = [startPc EXCEPT ![p] = "idle"]
    /\ startLoc' = [startLoc EXCEPT ![p] = NoStart]
    /\ IF /\ startLoc[p].tasks # {}
          /\ startLoc[p].tasks \subseteq {t.id : t \in roadmapTasks}
       THEN /\ userTaskProgress' = userTaskProgress \cup
                  TaskProgressEntries(startLoc[p].userId, startLoc[p].tasks,
                                      startLoc[p].userRoadmapId)
            /\ RoadRespond("start", 200)
       ELSE /\ RoadRespond("start", 500)
            /\ UNCHANGED userTaskProgress
    /\ UNCHANGED <<roadmapTasks, nextTaskId, userRoadmaps, getLoc,
                   outsideRoad>>

\* Any await of POST /:id/start may reject (connection lost, timeout): the
\* catch answers 500 and what was written stays.
StartDbError(p) ==
    /\ startPc[p] # "idle"
    /\ startPc' = [startPc EXCEPT ![p] = "idle"]
    /\ startLoc' = [startLoc EXCEPT ![p] = NoStart]
    /\ RoadRespond("start", 500)
    /\ UNCHANGED <<roadmapTasks, nextTaskId, userRoadmaps, userTaskProgress,
                   getLoc, outsideRoad>>

\* admin POST /roadmaps/:id/tasks: one insert; roadmapId is a foreign key.
\* No progress row is added for the users who already started the roadmap.
AdminCreateTask(id, hasTitle) ==
    /\ IF ~hasTitle
       THEN /\ RoadRespond("create_task", 400)
            /\ UNCHANGED <<roadmapTasks, nextTaskId>>
       ELSE IF id \notin Roadmaps
       THEN /\ RoadRespond("create_task", 500)
            /\ UNCHANGED <<roadmapTasks, nextTaskId>>
       ELSE /\ nextTaskId <= MaxTasks
            /\ roadmapTasks' = roadmapTasks \cup
                  {[id |-> nextTaskId, roadmapId |-> id]}
            /\ nextTaskId' = nextTaskId + 1
            /\ RoadRespond("create_task", 200)
    /\ UNCHANGED <<userRoadmaps, userTaskProgress, startPc, startLoc, getLoc,
                   outsideRoad>>

\* admin DELETE /tasks/:id: one delete; user_task_progress.taskId references
\* the row with no ON DELETE action, so a task with progress rows stays.
AdminDeleteTask(taskId) ==
    /\ IF \E r \in userTaskProgress : r.taskId = taskId
       THEN /\ RoadRespond("delete_task", 500)
            /\ UNCHANGED roadmapTasks
       ELSE /\ roadmapTasks' = {t \in roadmapTasks : t.id # taskId}
            /\ RoadRespond("delete_task", 200)
    /\ UNCHANGED <<nextTaskId, userRoadmaps, userTaskProgress, startPc,
                   startLoc, getLoc, outsideRoad>>

\* PUT /task-progress/:id/status: one update of the row, no validation of
\* the status.  A progress row is identified by (userRoadmapId, taskId).
UpdateTaskStatus(userRoadmapId, taskId, status) ==
    /\ \E r \in userTaskProgress :
          r.userRoadmapId = userRoadmapId /\ r.taskId = taskId
    /\ userTaskProgress' =
          {IF r.userRoadmapId = userRoadmapId /\ r.taskId = taskId
           THEN [r EXCEPT !.status = status] ELSE r : r \in userTaskProgress}
    /\ RoadRespond("status", 200)
    /\ UNCHANGED <<roadmapTasks, nextTaskId, userRoadmaps, startPc, startLoc,
                   getLoc, outsideRoad>>

\* GET /users/:userId, for one of the user's roadmaps: the await that
\* selects the roadmap's tasks (totalTasks) ...
GetSelectTotal(userRoadmapId) ==
    /\ getLoc = NoGet
    /\ userRoadmapId \in 1..Len(userRoadmaps)
    /\ getLoc' = [userRoadmapId |-> userRoadmapId,
                  total |-> Cardinality(
                      TasksOf(userRoadmaps[userRoadmapId].roadmapId))]
    /\ roadResp' = NoRoadResp
    /\ UNCHANGED <<roadmapTasks, nextTaskId, userRoadmaps, userTaskProgress,
                   startPc, startLoc, outsideRoad>>

\* ... then the await that selects the completed progress rows of the
\* userRoadmap, and the entry of the response.
GetSelectCompleted ==
    /\ getLoc # NoGet
    /\ LET completed == Cardinality(CompletedOf(getLoc.userRoadmapId))
       IN roadResp' = [op |-> "progress", status |-> 200,
                       userRoadmapId |-> getLoc.userRoadmapId,
                       completedTasks |-> completed,
                       totalTasks |-> getLoc.total,
                       progressPercentage |->
                           ProgressPercentage(completed, getLoc.total)]
    /\ getLoc' = NoGet
    /\ UNCHANGED <<roadmapTasks, nextTaskId, userRoadmaps, userTaskProgress,
                   startPc, startLoc, outsideRoad>>

\* ---------------------------------------------------------------- messages
ChatUsers == 1..NChatUsers
Sockets == {"s1", "s2", "s3"}
PreviewLength == 50
\* Lengths of the content of a sent message.
ContentLengths == {1, PreviewLength, PreviewLength + 1}

\* What no message route and no socket event touches.
outsideChat == <<requests, connections, nextConnId, uniqueConnections, pc,
                 loc, resp, lastConv, overlapped, roadVars, acctVars>>

ConversationIds == {c.id : c \in conversations}

NoChatResp == [op |-> "none", status |-> 0]
NoSend == [pc |-> "idle", socket |-> "none", conversationId |-> 0,
           receiverId |-> 0, length |-> 0, messageId |-> 0]
NoPreview == [chars |-> 0, ellipsis |-> FALSE]

ChatRespond(op, status) == chatResp' = [op |-> op, status |-> status]

\* where id = conversationId and (user1Id = senderId or user2Id = senderId)
IsParticipant(conversationId, senderId) ==
    \E c \in conversations :
        /\ c.id = conversationId
        /\ c.user1Id = senderId \/ c.user2Id = senderId

\* insert into messages: both columns are foreign keys.
InsertMessage(conversationId, senderId) ==
    messages' = Append(messages, [conversationId |-> conversationId,
                                  senderId |-> senderId, isRead |-> FALSE])

\* POST /messages: validation, the participant select, the insert, the
\* update of lastMessageAt and the select of the sender.  The conversations
\* table is not written while messages are sent, so the awaits after the
\* first one see what it saw.
PostMessage(conversationId, senderId, hasContent) ==
    /\ IF conversationId = 0 \/ senderId = 0 \/ ~hasContent
       THEN /\ ChatRespond("send", 400)
            /\ UNCHANGED messages
       ELSE IF ~IsParticipant(conversationId, senderId)
       THEN /\ ChatRespond("send", 404)
            /\ UNCHANGED messages
       ELSE /\ Len(messages) < MaxMessages
            /\ InsertMessage(conversationId, senderId)
            /\ ChatRespond("send", 200)
    /\ outbox' = <<>>
    /\ UNCHANGED <<conversations, sockets, sockUser, sockInfo, convRooms,
                   userRooms, onlineUsers, authedAs, sendLoc, outsideChat>>

\* where conversationId = c and isRead = false and senderId <> userId
MarkedReadOfAnyone(conversationId, userId) ==
    {i \in 1..Len(messages) :
        /\ messages[i].conversationId = conversationId
        /\ messages[i].isRead = FALSE}
MarkedReadAnywhere(conversationId, userId) ==
    {i \in 1..Len(messages) :
        /\ messages[i].isRead = FALSE
        /\ messages[i].senderId # userId}
MarkedRead(conversationId, userId) ==
    {i \in 1..Len(messages) :
        /\ messages[i].conversationId = conversationId
        /\ messages[i].isRead = FALSE
        /\ messages[i].senderId # userId}

\* PUT /messages/read: validation, then one update.
MarkRead(conversationId, userId) ==
    /\ IF conversationId = 0 \/ userId = 0
       THEN /\ ChatRespond("read", 400)
            /\ UNCHANGED messages
       ELSE /\ messages' = [i \in 1..Len(messages) |->
                  IF i \in MarkedRead(conversationId, userId)
                  THEN [messages[i] EXCEPT !.isRead = TRUE]
                  ELSE messages[i]]
            /\ ChatRespond("read", 200)
    /\ outbox' = <<>>
    /\ UNCHANGED <<conversations, sockets, sockUser, sockInfo, convRooms,
                   userRooms, onlineUsers, authedAs, sendLoc, outsideChat>>

\* ----------------------------------------------------------------- sockets
Connected(s) == \E i \in 1..Len(sockets) : sockets[i] = s

\* io.to(room).emit(event, ...): one event per socket of the room, the
\* sockets taken in connection order.
EmitTo(members, event, messageId, preview) ==
    LET sel == SelectSeq(sockets, LAMBDA x : x \in members)
    IN [i \in 1..Len(sel) |->
           [to |-> sel[i], event |-> event, messageId |-> messageId,
            preview |-> preview]]

\* socket.emit(event, ...)
EmitSelf(s, event) ==
    IF Connected(s)
    THEN <<[to |-> s, event |-> event, messageId |-> 0, preview |-> NoPreview]>>
    ELSE <<>>

\* content.substring(0, 50) + (content.length > 50 ? '...' : '')
PreviewCut(length) ==
    [chars |-> IF length < PreviewLength + 1 THEN length ELSE PreviewLength + 1,
     ellipsis |-> length > PreviewLength]
Preview(length) ==
    [chars |-> IF length < PreviewLength THEN length ELSE PreviewLength,
     ellipsis |-> length > PreviewLength]

\* Array.from(io.sockets.sockets.values()).find(s => s.userId === userId):
\* the first connected socket with that userId, "none" when there is none.
ReceiverSocket(userId) ==
    LET idx == {i \in 1..Len(sockets) : sockUser[sockets[i]] = userId}
    IN IF idx = {} THEN "none"
       ELSE sockets[CHOOSE i \in idx : \A j \in idx : i <= j]

\* io.on('connection'): a new socket, in no room, with no userId.
Connect(s) ==
    /\ ~Connected(s)
    /\ sockets' = Append(sockets, s)
    /\ outbox' = <<>>
    /\ chatResp' = NoChatResp
    /\ UNCHANGED <<conversations, messages, sockUser, sockInfo, convRooms,
                   userRooms, onlineUsers, authedAs, sendLoc, outsideChat>>

\* socket.on('authenticate'): userId and userInfo are taken from the event
\* as they come.  When Redis is ready and setEx rejects, the catch runs
\* before the personal room is joined; without userInfo the log line throws
\* after it was joined.  The await of setEx is folded into the step: what
\* another handler could see during it is what it sees after a rejection.
Authenticate(s, userId, hasInfo, redisOk) ==
    /\ Connected(s)
    /\ sockUser' = [sockUser EXCEPT ![s] = userId]
    /\ sockInfo' = [sockInfo EXCEPT ![s] = hasInfo]
    /\ onlineUsers' = [onlineUsers EXCEPT ![userId] = s]
    /\ authedAs' = [authedAs EXCEPT ![s] = @ \cup {userId}]
    /\ IF redisOk
       THEN /\ userRooms' = [userRooms EXCEPT ![s] = @ \cup {userId}]
            /\ outbox' = EmitTo({x \in Sockets : x # s}, "user-online", 0, NoPreview)
                  \o EmitSelf(s, IF hasInfo THEN "authenticated"
                                 ELSE "auth-error")
       ELSE /\ UNCHANGED userRooms
            /\ outbox' = EmitSelf(s, "auth-error")
    /\ chatResp' = NoChatResp
    /\ UNCHANGED <<conversations, messages, sockets, convRooms, sendLoc,
                   outsideChat>>

\* socket.on('disconnect'): the socket has left its rooms and
\* io.sockets.sockets; the entry of its userId is deleted from onlineUsers.
SocketDisconnect(s) ==
    /\ Connected(s)
    /\ sockets' = SelectSeq(sockets, LAMBDA x : x # s)
    /\ convRooms' = [convRooms EXCEPT ![s] = {}]
    /\ userRooms' = [userRooms EXCEPT ![s] = {}]
    /\ sockUser' = [sockUser EXCEPT ![s] = 0]
    /\ sockInfo' = [sockInfo EXCEPT ![s] = FALSE]
    /\ IF sockUser[s] # 0
       THEN /\ onlineUsers' = [onlineUsers EXCEPT ![sockUser[s]] = "none"]
            /\ outbox' = EmitTo({x \in Sockets : x # s}, "user-offline", 0, NoPreview)
       ELSE /\ UNCHANGED onlineUsers
            /\ outbox' = <<>>
    /\ chatResp' = NoChatResp
    /\ UNCHANGED <<conversations, messages, authedAs, sendLoc, outsideChat>>

\* isUserOnline(userId)
IsUserOnline(userId) == onlineUsers[userId] # "none"

\* socket.on('join-conversation'): only socket.userId is looked at.
JoinConversation(s, conversationId) ==
    /\ Connected(s)
    /\ IF sockUser[s] = 0
       THEN /\ outbox' = EmitSelf(s, "error")
            /\ UNCHANGED convRooms
       ELSE /\ convRooms' = [convRooms EXCEPT ![s] = @ \cup {conversationId}]
            /\ outbox' = <<>>
    /\ chatResp' = NoChatResp
    /\ UNCHANGED <<conversations, messages, sockets, sockUser, sockInfo,
                   userRooms, onlineUsers, authedAs, sendLoc, outsideChat>>

\* socket.on('leave-conversation')
LeaveConversation(s, conversationId) ==
    /\ Connected(s)
    /\ conversationId \in convRooms[s]
    /\ convRooms' = [convRooms EXCEPT ![s] = @ \ {conversationId}]
    /\ outbox' = <<>>
    /\ chatResp' = NoChatResp
    /\ UNCHANGED <<conversations, messages, sockets, sockUser, sockInfo,
                   userRooms, onlineUsers, authedAs, sendLoc, outsideChat>>

\* socket.on('send-message'), up to the first await: the authentication
\* test, then the insert with senderId = socket.userId.  A rejected insert
\* (a foreign key that names no row, the database unreachable) ends in the
\* catch, which emits error to the sender.
SendInsert(s, conversationId, receiverId, length, dbOk) ==
    /\ sendLoc = NoSend
    /\ Connected(s)
    /\ IF sockUser[s] = 0 \/ ~sockInfo[s]
       THEN /\ outbox' = EmitSelf(s, "error")
            /\ UNCHANGED <<messages, sendLoc>>
       ELSE IF dbOk /\ conversationId \in ConversationIds
                    /\ sockUser[s] \in ChatUsers
       THEN /\ Len(messages) < MaxMessages
            /\ InsertMessage(conversationId, sockUser[s])
            /\ sendLoc' = [pc |-> "send_update", socket |-> s,
                           conversationId |-> conversationId,
                           receiverId |-> receiverId, length |-> length,
                           messageId |-> Len(messages) + 1]
            /\ outbox' = <<>>
       ELSE /\ outbox' = EmitSelf(s, "error")
            /\ UNCHANGED <<messages, sendLoc>>
    /\ chatResp' = NoChatResp
    /\ UNCHANGED <<conversations, sockets, sockUser, sockInfo, convRooms,
                   userRooms, onlineUsers, authedAs, outsideChat>>

\* The events of one sent message: new-message to the conversation room,
\* then, when the first socket of the receiver is not in that room,
\* message-notification to the receiver's personal room.
EventsOfUnsavedMessage(conversationId, receiverId, length, messageId) ==
    EmitTo({x \in Sockets : conversationId \in convRooms[x]}, "new-message",
           Len(messages) + 1, NoPreview)
MessageEvents(conversationId, receiverId, length, messageId) ==
    EmitTo({x \in Sockets : conversationId \in convRooms[x]}, "new-message",
           messageId, NoPreview)
    \o (IF /\ ReceiverSocket(receiverId) # "none"
           /\ conversationId \notin convRooms[ReceiverSocket(receiverId)]
        THEN EmitTo({x \in Sockets : receiverId \in userRooms[x]},
                    "message-notification", messageId, Preview(length))
        ELSE <<>>)

\* After the insert: the update of lastMessageAt, then the emits.
SendUpdate ==
    /\ sendLoc.pc = "send_update"
    /\ outbox' = MessageEvents(sendLoc.conversationId, sendLoc.receiverId,
                               sendLoc.length, sendLoc.messageId)
    /\ sendLoc' = NoSend
    /\ chatResp' = NoChatResp
    /\ UNCHANGED <<conversations, messages, sockets, sockUser, sockInfo,
                   convRooms, userRooms, onlineUsers, authedAs, outsideChat>>

\* The update rejects: the catch emits error to the sender; the message
\* row stays and nothing is broadcast.
SendDbError ==
    /\ sendLoc.pc = "send_update"
    /\ outbox' = EmitSelf(sendLoc.socket, "error")
    /\ sendLoc' = NoSend
    /\ chatResp' = NoChatResp
    /\ UNCHANGED <<conversations, messages, sockets, sockUser, sockInfo,
                   convRooms, userRooms, onlineUsers, authedAs, outsideChat>>

\* A typing event relayed whoever sent it.
TypingUnchecked(s, conversationId) ==
    /\ Connected(s)
    /\ outbox' = EmitTo({x \in Sockets : x # s /\ conversationId \in convRooms[x]},
                        "user-typing", 0, NoPreview)
    /\ chatResp' = NoChatResp
    /\ UNCHANGED <<conversations, messages, sockets, sockUser, sockInfo,
                   convRooms, userRooms, onlineUsers, authedAs, sendLoc, outsideChat>>

\* socket.on('typing'): to the other sockets of the room.
Typing(s, conversationId) ==
    /\ Connected(s)
    /\ outbox' = IF sockUser[s] = 0 \/ ~sockInfo[s] THEN <<>>
                 ELSE EmitTo({x \in Sockets : x # s /\ conversationId \in convRooms[x]},
                             "user-typing", 0, NoPreview)
    /\ chatResp' = NoChatResp
    /\ UNCHANGED <<conversations, messages, sockets, sockUser, sockInfo,
                   convRooms, userRooms, onlineUsers, authedAs, sendLoc, outsideChat>>

\* socket.on('mark-read'): messages-read to the other sockets of the room;
\* the messages table is not written.
SocketMarkRead(s, conversationId) ==
    /\ Connected(s)
    /\ outbox' = IF sockUser[s] = 0 THEN <<>>
                 ELSE EmitTo({x \in Sockets : x # s /\ conversationId \in convRooms[x]},
                             "messages-read", 0, NoPreview)
    /\ chatResp' = NoChatResp
    /\ UNCHANGED <<conversations, messages, sockets, sockUser, sockInfo,
                   convRooms, userRooms, onlineUsers, authedAs, sendLoc, outsideChat>>

\* ------------------------------------------- users, projects and blobs
MaxUserRows == 2   \* rows the users table may hold
MaxKeys == 2       \* keys generateFileKey may hand out (serial 1..)

\* Body and Google values; "" stands for every falsy value (null,
\* undefined, "").
Usernames == {"", "ann", "bob"}
Passwords == {"", "pw"}
GoogleIds == {"", "g1", "g2"}
Emails == {"", "a@x"}

\* A picture URL: none, one served by Google (key: which one) or the URL of
\* the blob stored under a key.
NoPicture == [origin |-> "null", key |-> 0]
GooglePicture(n) == [origin |-> "google", key |-> n]
GooglePictures == {NoPicture, GooglePicture(1), GooglePicture(2)}

\* `${S3_ENDPOINT}/${BUCKET_NAME}/${key}`
FileUrl(key) == [origin |-> "s3", key |-> key]

\* bcrypt.hash(password, 10)
BcryptHash(password) == "$2a$10$" \o password

NoAcct == [userId |-> 0, username |-> "", password |-> "", googleId |-> "",
           email |-> "", picture |-> NoPicture, setPicture |-> FALSE,
           oldKey |-> 0, fileKey |-> 0, deleteFailed |-> FALSE]
NoAcctResp == [op |-> "none", status |-> 0, id |-> 0, key |-> 0,
               deleteFailed |-> FALSE, uploadFailed |-> FALSE]

\* c.json(body, status) of a users or projects route.
AcctRespond(p, op, status, id) ==
    /\ acctPc' = [acctPc EXCEPT ![p] = "idle"]
    /\ acctLoc' = [acctLoc EXCEPT ![p] = NoAcct]
    /\ acctResp' = [op |-> op, status |-> status, id |-> id,
                    key |-> acctLoc[p].fileKey,
                    deleteFailed |-> acctLoc[p].deleteFailed,
                    uploadFailed |-> FALSE]

\* The handler goes on to its next await.
AcctGoto(p, label, locals) ==
    /\ acctPc' = [acctPc EXCEPT ![p] = label]
    /\ acctLoc' = [acctLoc EXCEPT ![p] = locals]
    /\ acctResp' = NoAcctResp

UserIds == 1..MaxUserRows
UserRowIds == DOMAIN users

\* The unique constraints of the users table; NULLs never collide.
UsersUnique(rows) ==
    \A i, j \in DOMAIN rows :
        i # j => /\ rows[i].username = "" \/ rows[i].username # rows[j].username
                 /\ rows[i].email = "" \/ rows[i].email # rows[j].email
                 /\ rows[i].googleId = "" \/ rows[i].googleId # rows[j].googleId

\* ------------------------------------------------------ POST /register
NewUserWithoutPassword(username, hashedPassword) ==
    [username |-> username, password |-> "", googleId |-> "", email |-> "",
     authProvider |-> "local", profilePicture |-> NoPicture,
     profilePictureKey |-> 0, googleProfilePicture |-> NoPicture]

\* values({ name, lastname, username, password: hashedPassword })
NewLocalUser(username, hashedPassword) ==
    [username |-> username, password |-> hashedPassword, googleId |-> "",
     email |-> "", authProvider |-> "local", profilePicture |-> NoPicture,
     profilePictureKey |-> 0, googleProfilePicture |-> NoPicture]

\* Validation and the select by username.
Register(p, hasNames, username, password) ==
    /\ acctPc[p] = "idle"
    /\ IF ~hasNames \/ username = "" \/ password = ""
       THEN AcctRespond(p, "register", 400, 0)
       ELSE IF \E i \in UserRowIds : users[i].username = username
       THEN AcctRespond(p, "register", 409, 0)
       ELSE AcctGoto(p, "register_insert",
                     [NoAcct EXCEPT !.username = username,
                                    !.password = password])
    /\ UNCHANGED <<users, projects, blobs, nextKey, coreVars, roadVars,
                   chatVars>>

\* bcrypt.hash and the insert; a unique violation is answered 500.
RegisterInsert(p) ==
    /\ acctPc[p] = "register_insert"
    /\ Len(users) < MaxUserRows
    /\ LET row == NewLocalUser(acctLoc[p].username,
                               BcryptHash(acctLoc[p].password))
       IN IF UsersUnique(Append(users, row))
          THEN /\ users' = Append(users, row)
               /\ AcctRespond(p, "register", 201, Len(users) + 1)
          ELSE /\ users' = users
               /\ AcctRespond(p, "register", 500, 0)
    /\ UNCHANGED <<projects, blobs, nextKey, coreVars, roadVars, chatVars>>

\* ----------------------------------------- POST /auth/google/callback
NewUserWithoutGoogleId(googleId, email, picture) ==
    [username |-> "", password |-> "", googleId |-> "", email |-> email,
     authProvider |-> "google", profilePicture |-> picture,
     profilePictureKey |-> 0, googleProfilePicture |-> picture]

\* newUserData
NewGoogleUser(googleId, email, picture) ==
    [username |-> "", password |-> "", googleId |-> googleId,
     email |-> email, authProvider |-> "google", profilePicture |-> picture,
     profilePictureKey |-> 0, googleProfilePicture |-> picture]

\* where googleId = googleUser.id OR email = googleUser.email
ExistingUser(googleId, email) ==
    {i \in UserRowIds : users[i].googleId = googleId \/ users[i].email = email}

\* Validation, getGoogleUserInfo (infoOk: it did not throw) and the select;
\* existingUser[0] is any of the matching rows.
GoogleCallback(p, hasCode, infoOk, googleId, email, picture) ==
    /\ acctPc[p] = "idle"
    /\ IF ~hasCode
       THEN AcctRespond(p, "google", 400, 0)
       ELSE IF ~infoOk
       THEN AcctRespond(p, "google", 500, 0)
       ELSE IF email = "" \/ googleId = ""
       THEN AcctRespond(p, "google", 400, 0)
       ELSE IF ExistingUser(googleId, email) = {}
       THEN AcctGoto(p, "google_insert",
                     [NoAcct EXCEPT !.googleId = googleId, !.email = email,
                                    !.picture = picture])
       ELSE \E i \in ExistingUser(googleId, email) :
              IF users[i].googleId = ""
              THEN AcctGoto(p, "google_update",
                            [NoAcct EXCEPT !.userId = i,
                                           !.googleId = googleId,
                                           !.picture = picture,
                                           !.setPicture = TRUE])
              ELSE IF picture # NoPicture
                      /\ users[i].googleProfilePicture # picture
              THEN AcctGoto(p, "google_update",
                            [NoAcct EXCEPT
                                !.userId = i,
                                !.picture = picture,
                                !.setPicture =
                                    (users[i].profilePictureKey = 0)])
              ELSE AcctRespond(p, "google", 200, i)
    /\ UNCHANGED <<users, projects, blobs, nextKey, coreVars, roadVars,
                   chatVars>>

\* The update of the existing row: the link to the Google account
\* (locals hold googleUser.id) or the refresh of the Google picture.
GoogleUpdate(p) ==
    /\ acctPc[p] = "google_update"
    /\ LET l == acctLoc[p]
           row == users[l.userId]
           linked == [row EXCEPT !.googleId = l.googleId,
                                 !.authProvider = "google",
                                 !.profilePicture = l.picture,
                                 !.googleProfilePicture = l.picture]
           refreshed == [row EXCEPT
                            !.googleProfilePicture = l.picture,
                            !.profilePicture =
                                IF l.setPicture THEN l.picture ELSE @]
           rows == [users EXCEPT ![l.userId] =
                       IF l.googleId # "" THEN linked ELSE refreshed]
       IN IF UsersUnique(rows)
          THEN /\ users' = rows
               /\ AcctRespond(p, "google", 200, l.userId)
          ELSE /\ users' = users
               /\ AcctRespond(p, "google", 500, 0)
    /\ UNCHANGED <<projects, blobs, nextKey, coreVars, roadVars, chatVars>>

\* The insert of the new row; a unique violation is answered 500.
GoogleInsert(p) ==
    /\ acctPc[p] = "google_insert"
    /\ Len(users) < MaxUserRows
    /\ LET row == NewGoogleUser(acctLoc[p].googleId, acctLoc[p].email,
                                acctLoc[p].picture)
       IN IF UsersUnique(Append(users, row))
          THEN /\ users' = Append(users, row)
               /\ AcctRespond(p, "google", 200, Len(users) + 1)
          ELSE /\ users' = users
               /\ AcctRespond(p, "google", 500, 0)
    /\ UNCHANGED <<projects, blobs, nextKey, coreVars, roadVars, chatVars>>

\* ------------------------------------------------- services/s3.ts blobs
\* The try/catch around `await deleteFile(oldKey)`: whether the handler
\* goes on, given whether the blob was deleted.
RethrowDeleteFailure(deleted) == deleted
SwallowDeleteFailure(deleted) == TRUE

\* deleteFile(key): on success the blob is gone, on failure it stays.
DeleteFile(key, deleted) == IF deleted THEN blobs \ {key} ELSE blobs

\* The await of deleteFile and what the route does with its outcome.
DeleteOld(p, op, deleted, label) ==
    /\ blobs' = DeleteFile(acctLoc[p].oldKey, deleted)
    /\ IF SwallowDeleteFailure(deleted)
       THEN AcctGoto(p, label,
                     [acctLoc[p] EXCEPT !.deleteFailed = ~deleted])
       ELSE /\ acctPc' = [acctPc EXCEPT ![p] = "idle"]
            /\ acctLoc' = [acctLoc EXCEPT ![p] = NoAcct]
            /\ acctResp' = [op |-> op, status |-> 500, id |-> 0, key |-> 0,
                            deleteFailed |-> TRUE, uploadFailed |-> FALSE]

\* generateFileKey and uploadFile(fileKey, buffer, type): the key is fresh
\* (timestamp and random part); a failed upload is answered 500.
UploadNew(p, op, uploaded, label) ==
    /\ nextKey <= MaxKeys
    /\ nextKey' = nextKey + 1
    /\ IF uploaded
       THEN /\ blobs' = blobs \cup {nextKey}
            /\ AcctGoto(p, label, [acctLoc[p] EXCEPT !.fileKey = nextKey])
       ELSE /\ blobs' = blobs
            /\ acctPc' = [acctPc EXCEPT ![p] = "idle"]
            /\ acctLoc' = [acctLoc EXCEPT ![p] = NoAcct]
            /\ acctResp' = [op |-> op, status |-> 500, id |-> 0, key |-> 0,
                            deleteFailed |-> acctLoc[p].deleteFailed,
                            uploadFailed |-> TRUE]

\* ------------------------------------------ POST /profile-picture/:id
\* Validation of the file and the select of the user.
UploadPicture(p, userId, fileOk) ==
    /\ acctPc[p] = "idle"
    /\ IF ~fileOk
       THEN AcctRespond(p, "picture", 400, 0)
       ELSE IF userId \notin UserRowIds
       THEN AcctRespond(p, "picture", 404, 0)
       ELSE AcctGoto(p, IF users[userId].profilePictureKey # 0
                        THEN "picture_delete" ELSE "picture_upload",
                     [NoAcct EXCEPT
                         !.userId = userId,
                         !.oldKey = users[userId].profilePictureKey])
    /\ UNCHANGED <<users, projects, blobs, nextKey, coreVars, roadVars,
                   chatVars>>

UploadPictureDeleteOld(p, deleted) ==
    /\ acctPc[p] = "picture_delete"
    /\ DeleteOld(p, "picture", deleted, "picture_upload")
    /\ UNCHANGED <<users, projects, nextKey, coreVars, roadVars, chatVars>>

UploadPictureUpload(p, uploaded) ==
    /\ acctPc[p] = "picture_upload"
    /\ UploadNew(p, "picture", uploaded, "picture_update")
    /\ UNCHANGED <<users, projects, coreVars, roadVars, chatVars>>

\* set({ profilePicture: fileUrl, profilePictureKey: fileKey })
UploadPictureUpdate(p) ==
    /\ acctPc[p] = "picture_update"
    /\ LET l == acctLoc[p]
       IN IF l.userId \in UserRowIds
          THEN /\ users' = [users EXCEPT
                              ![l.userId].profilePicture = FileUrl(l.fileKey),
                              ![l.userId].profilePictureKey = l.fileKey]
               /\ AcctRespond(p, "picture", 200, l.userId)
          ELSE /\ users' = users
               /\ AcctRespond(p, "picture", 404, 0)
    /\ UNCHANGED <<projects, blobs, nextKey, coreVars, roadVars, chatVars>>

\* ---------------------------------------- DELETE /profile-picture/:id
DeletePicture(p, userId) ==
    /\ acctPc[p] = "idle"
    /\ IF userId \notin UserRowIds
       THEN AcctRespond(p, "unpicture", 404, 0)
       ELSE AcctGoto(p, IF users[userId].profilePictureKey # 0
                        THEN "unpicture_delete" ELSE "unpicture_update",
                     [NoAcct EXCEPT
                         !.userId = userId,
                         !.oldKey = users[userId].profilePictureKey])
    /\ UNCHANGED <<users, projects, blobs, nextKey, coreVars, roadVars,
                   chatVars>>

DeletePictureDelete(p, deleted) ==
    /\ acctPc[p] = "unpicture_delete"
    /\ DeleteOld(p, "unpicture", deleted, "unpicture_update")
    /\ UNCHANGED <<users, projects, nextKey, coreVars, roadVars, chatVars>>

\* set({ profilePicture: null, profilePictureKey: null })
DeletePictureUpdate(p) ==
    /\ acctPc[p] = "unpicture_update"
    /\ users' = [users EXCEPT
                    ![acctLoc[p].userId].profilePicture = NoPicture,
                    ![acctLoc[p].userId].profilePictureKey = 0]
    /\ AcctRespond(p, "unpicture", 200, acctLoc[p].userId)
    /\ UNCHANGED <<projects, blobs, nextKey, coreVars, roadVars, chatVars>>

\* ------------------------------ PUT /profile-picture/revert-google/:id
RevertGoogle(p, userId) ==
    /\ acctPc[p] = "idle"
    /\ IF userId \notin UserRowIds
       THEN AcctRespond(p, "revert", 404, 0)
       ELSE IF users[userId].googleProfilePicture = NoPicture
       THEN AcctRespond(p, "revert", 400, 0)
       ELSE AcctGoto(p, IF users[userId].profilePictureKey # 0
                        THEN "revert_delete" ELSE "revert_update",
                     [NoAcct EXCEPT
                         !.userId = userId,
                         !.picture = users[userId].googleProfilePicture,
                         !.oldKey = users[userId].profilePictureKey])
    /\ UNCHANGED <<users, projects, blobs, nextKey, coreVars, roadVars,
                   chatVars>>

RevertGoogleDelete(p, deleted) ==
    /\ acctPc[p] = "revert_delete"
    /\ DeleteOld(p, "revert", deleted, "revert_update")
    /\ UNCHANGED <<users, projects, nextKey, coreVars, roadVars, chatVars>>

\* set({ profilePicture: user.googleProfilePicture, profilePictureKey: null })
RevertGoogleUpdate(p) ==
    /\ acctPc[p] = "revert_update"
    /\ users' = [users EXCEPT
                    ![acctLoc[p].userId].profilePicture = acctLoc[p].picture,
                    ![acctLoc[p].userId].profilePictureKey = 0]
    /\ AcctRespond(p, "revert", 200, acctLoc[p].userId)
    /\ UNCHANGED <<projects, blobs, nextKey, coreVars, roadVars, chatVars>>

\* ------------------------------------- POST /projects/:id/upload-image
ProjectIds == DOMAIN projects

\* The select of the project and the validation of the file.
UploadImage(p, projectId, fileOk) ==
    /\ acctPc[p] = "idle"
    /\ IF projectId = 0
       THEN AcctRespond(p, "image", 400, 0)
       ELSE IF projectId \notin ProjectIds
       THEN AcctRespond(p, "image", 404, 0)
       ELSE IF ~fileOk
       THEN AcctRespond(p, "image", 400, 0)
       ELSE AcctGoto(p, IF projects[projectId].imageKey # 0
                        THEN "image_delete" ELSE "image_upload",
                     [NoAcct EXCEPT
                         !.userId = projectId,
                         !.oldKey = projects[projectId].imageKey])
    /\ UNCHANGED <<users, projects, blobs, nextKey, coreVars, roadVars,
                   chatVars>>

UploadImageDeleteOld(p, deleted) ==
    /\ acctPc[p] = "image_delete"
    /\ DeleteOld(p, "image", deleted, "image_upload")
    /\ UNCHANGED <<users, projects, nextKey, coreVars, roadVars, chatVars>>

UploadImageUpload(p, uploaded) ==
    /\ acctPc[p] = "image_upload"
    /\ UploadNew(p, "image", uploaded, "image_update")
    /\ UNCHANGED <<users, projects, coreVars, roadVars, chatVars>>

\* set({ imageUrl: fileUrl, imageKey: fileKey })
UploadImageUpdate(p) ==
    /\ acctPc[p] = "image_update"
    /\ projects' = [projects EXCEPT
                       ![acctLoc[p].userId].imageUrl =
                           FileUrl(acctLoc[p].fileKey),
                       ![acctLoc[p].userId].imageKey = acctLoc[p].fileKey]
    /\ AcctRespond(p, "image", 200, acctLoc[p].userId)
    /\ UNCHANGED <<users, blobs, nextKey, coreVars, roadVars, chatVars>>

\* No user, no project, no blob, no handler of these routes in flight.
AcctIdle ==
    /\ users = <<>>
    /\ projects = <<>>
    /\ blobs = {}
    /\ nextKey = 1
    /\ acctPc = [p \in Procs |-> "idle"]
    /\ acctLoc = [p \in Procs |-> NoAcct]
    /\ acctResp = NoAcctResp

\* No message, no socket connected.
ChatIdle ==
    /\ messages = <<>>
    /\ chatResp = NoChatResp
    /\ sockets = <<>>
    /\ sockUser = [s \in Sockets |-> 0]
    /\ sockInfo = [s \in Sockets |-> FALSE]
    /\ convRooms = [s \in Sockets |-> {}]
    /\ userRooms = [s \in Sockets |-> {}]
    /\ onlineUsers = [u \in ChatUsers |-> "none"]
    /\ authedAs = [s \in Sockets |-> {}]
    /\ sendLoc = NoSend
    /\ outbox = <<>>

\* No roadmap, no task, no handler of a roadmap route in flight.
RoadIdle ==
    /\ roadmapTasks = {}
    /\ nextTaskId = 1
    /\ userRoadmaps = <<>>
    /\ userTaskProgress = {}
    /\ startPc = [p \in StartProcs |-> "idle"]
    /\ startLoc = [p \in StartProcs |-> NoStart]
    /\ getLoc = NoGet
    /\ roadResp = NoRoadResp

\* Every subsystem other than conversations and connections at rest.
OthersIdle == RoadIdle /\ ChatIdle /\ AcctIdle

\* ------------------------------------------------------- specifications
InitHandlers ==
    /\ pc = [p \in Procs |-> "idle"]
    /\ loc = [p \in Procs |-> NoLoc]
    /\ resp = NoResp
    /\ lastConv = [q \in Pairs |-> 0]
    /\ overlapped = {}

InitConv ==
    /\ InitHandlers
    /\ conversations = {}
    /\ requests = <<>>
    /\ connections = {}
    /\ nextConnId = 1
    /\ uniqueConnections = FALSE
    /\ OthersIdle

NextConv ==
    \/ \E p \in Procs, user1Id, user2Id \in JsonIds : ConvCheck(p, user1Id, user2Id)
    \/ \E p \in Procs : ConvInsert(p)
    \/ \E p \in Procs : DbError(p)

SpecConv == InitConv /\ [][NextConv]_vars

\* The connections tables come from the migration, which creates
\* idx_unique_connections, or from the ORM schema, which declares no index.
InitConn ==
    /\ InitHandlers
    /\ conversations = {}
    /\ requests = <<>>
    /\ connections = {}
    /\ nextConnId = 1
    /\ uniqueConnections \in BOOLEAN
    /\ OthersIdle

NextConn ==
    \/ \E p \in Procs, senderId, receiverId \in JsonNumbers :
          ReqCheckReceiver(p, senderId, receiverId)
    \/ \E p \in Procs : ReqCheckConnected(p)
    \/ \E p \in Procs : ReqCheckPending(p)
    \/ \E p \in Procs : ReqInsert(p)
    \/ \E p \in Procs, requestId \in 1..MaxRequests, userId \in JsonNumbers :
          AcceptFind(p, requestId, userId)
    \/ \E p \in Procs : AcceptInsert(p)
    \/ \E p \in Procs : AcceptUpdate(p)
    \/ \E p \in Procs, requestId \in 1..MaxRequests, userId \in JsonNumbers :
          RejectFind(p, requestId, userId)
    \/ \E p \in Procs : RejectUpdate(p)
    \/ \E p \in Procs, userId, otherUserId \in JsonNumbers :
          Disconnect(p, userId, otherUserId)
    \/ \E p \in Procs : DbError(p)

SpecConn == InitConn /\ [][NextConn]_vars

\* The conversation and connection tables empty, no such handler in flight.
CoreIdle ==
    /\ InitHandlers
    /\ conversations = {}
    /\ requests = <<>>
    /\ connections = {}
    /\ nextConnId = 1
    /\ uniqueConnections = FALSE

InitRoad ==
    /\ CoreIdle
    /\ RoadIdle
    /\ AcctIdle
    /\ ChatIdle

NextRoad ==
    \/ \E p \in StartProcs, id \in RoadmapIds, userId \in RoadUserIds :
          StartCheck(p, id, userId)
    \/ \E p \in StartProcs : StartInsertRoadmap(p)
    \/ \E p \in StartProcs : StartSelectTasks(p)
    \/ \E p \in StartProcs : StartInsertProgress(p)
    \/ \E p \in StartProcs : StartDbError(p)
    \/ \E id \in RoadmapIds, hasTitle \in BOOLEAN : AdminCreateTask(id, hasTitle)
    \/ \E taskId \in 1..MaxTasks : AdminDeleteTask(taskId)
    \/ \E userRoadmapId \in 1..MaxUserRoadmaps, taskId \in 1..MaxTasks,
          status \in StatusInputs :
          UpdateTaskStatus(userRoadmapId, taskId, status)
    \/ \E userRoadmapId \in 1..MaxUserRoadmaps : GetSelectTotal(userRoadmapId)
    \/ GetSelectCompleted

SpecRoad == InitRoad /\ [][NextRoad]_vars

\* ------------------------------------------------ claims: conversations

\* C1: POST /conversations for a pair, then again for the same pair in
\* either direction, one call after the other, returns the same
\* conversation id, and the second call inserts no row.
C1_SameConversationBothDirections ==
    /\ (resp.op = "conv" /\ resp.status = 200 /\ resp.prev # 0)
          => resp.id = resp.prev
    /\ \A p \in Procs : pc[p] = "conv_insert" => loc[p].prev = 0

\* C2: there is at most one conversation row per unordered pair of users,
\* also when two POST /conversations for the pair interleave.
C2_OneConversationPerPair ==
    \A c1, c2 \in conversations :
        {c1.user1Id, c1.user2Id} = {c2.user1Id, c2.user2Id} => c1 = c2

\* C3: every conversation row has user1Id strictly smaller than user2Id.
C3_ConversationIdsAscending ==
    \A c \in conversations : c.user1Id < c.user2Id

\* C4: POST /conversations with user1Id equal to user2Id answers 400 and
\* leaves the conversations unchanged; no row has user1Id = user2Id.
C4_SelfConversationRefused ==
    /\ \A c \in conversations : c.user1Id # c.user2Id
    /\ \A p \in Procs :
          pc[p] = "conv_insert" => loc[p].user1Id # loc[p].user2Id

\* -------------------------------------------- claims: connection requests

\* C5: when a pending request between A and B exists (either direction),
\* POST /connections/request from A to B answers 409 and inserts no row,
\* and the pair still has exactly one pending request.
C5_PendingRequestConflict ==
    [][\A p \in Procs :
          (/\ pc[p] = "req_pending"
           /\ pc'[p] # "req_pending"
           /\ resp'.op # "error"
           /\ PendingBetween(loc[p].senderId, loc[p].receiverId) # {})
          => /\ pc'[p] = "idle"
             /\ resp'.op = "request" /\ resp'.status = 409
             /\ requests' = requests
             /\ Cardinality(PendingBetween(loc[p].senderId,
                                           loc[p].receiverId)) = 1]_vars

\* C6: no reachable state holds two pending requests between the same two
\* users, also when A -> B and B -> A are sent concurrently.
C6_OnePendingRequestPerPair ==
    \A a, b \in Users : Cardinality(PendingBetween(a, b)) <= 1

\* C7: a successful accept of a pending request by its receiver adds exactly
\* one Connection row, with user1Id = min(sender, receiver) and user2Id =
\* max(sender, receiver), and sets the request's status to accepted.
C7_AcceptCreatesOrderedConnection ==
    [][\A p \in Procs :
          LET r == loc[p].requestId
              added == connections' \ connections
          IN /\ (pc[p] = "idle" /\ pc'[p] = "accept_insert")
                   => /\ connections' = connections
                      /\ requests[loc'[p].requestId].status = "pending"
             /\ (pc[p] = "accept_insert" /\ pc'[p] = "accept_update")
                   => /\ connections \subseteq connections'
                      /\ Cardinality(added) = 1
                      /\ \A c \in added :
                            /\ c.user1Id <= c.user2Id
                            /\ {c.user1Id, c.user2Id} =
                                  {requests[r].senderId, requests[r].receiverId}
             /\ (pc[p] = "accept_update" /\ pc'[p] = "idle"
                    /\ resp'.op = "accept" /\ resp'.status = 200)
                   => /\ connections' = connections
                      /\ requests'[r].status = "accepted"]_vars

\* C7 witness: an accept has just answered 200 for a request whose sender
\* has the larger id; the request is accepted and its row is ordered.
C7_Witness ==
    /\ resp.op = "accept" /\ resp.status = 200
    /\ \E c \in connections :
          /\ requests[c.via].status = "accepted"
          /\ requests[c.via].senderId = c.user2Id
          /\ requests[c.via].receiverId = c.user1Id
          /\ c.user1Id < c.user2Id

\* C8: a successful reject sets the request's status to rejected and leaves
\* the Connection table unchanged; after it there is no Connection row
\* between the two users unless another request between them was accepted.
C8_RejectLeavesNoConnection ==
    [][\A p \in Procs :
          (pc[p] = "reject_update" /\ pc'[p] = "idle"
              /\ resp'.op = "reject" /\ resp'.status = 200)
          => LET r == loc[p].requestId
                 a == requests[r].senderId
                 b == requests[r].receiverId
             IN /\ requests'[r].status = "rejected"
                /\ connections' = connections
                /\ ConnectionsBetween(a, b) # {}
                      => \E i \in 1..Len(requests) :
                            /\ i # r
                            /\ {requests[i].senderId, requests[i].receiverId}
                                  = {a, b}
                            /\ requests'[i].wasAccepted]_vars

\* C9: accepted and rejected are terminal: once a request has one of these
\* statuses, no step changes its status again.
C9_TerminalStatuses ==
    [][\A i \in 1..Len(requests) :
          requests[i].status \in {"accepted", "rejected"}
             => requests'[i].status = requests[i].status]_vars

\* C10: acceptance is atomic: no reachable state has the Connection row
\* created for a request present while that request is still pending.
C10_AcceptAtomic ==
    \A c \in connections : requests[c.via].status # "pending"

\* The messaging runs start from two conversations, (1, 2) and (2, 3), and
\* three connected sockets that authenticated in connection order: s1 as
\* user 1, s2 as user 2, and s3 as user 2, as user 3, or not at all.
SocketUsers ==
    {[s \in Sockets |-> IF s = "s1" THEN 1 ELSE IF s = "s2" THEN 2 ELSE u] :
        u \in {0, 2, 3}}

SocketsReady ==
    /\ sockets = <<"s1", "s2", "s3">>
    /\ sockUser \in SocketUsers
    /\ sockInfo = [s \in Sockets |-> sockUser[s] # 0]
    /\ userRooms = [s \in Sockets |->
                       IF sockUser[s] = 0 THEN {} ELSE {sockUser[s]}]
    /\ authedAs = userRooms
    /\ convRooms = [s \in Sockets |-> {}]
    /\ onlineUsers = [u \in ChatUsers |->
                         IF sockUser["s3"] = u THEN "s3"
                         ELSE IF u = 2 THEN "s2"
                         ELSE IF u = 1 THEN "s1" ELSE "none"]

\* Two conversations, (1, 2) and (2, 3); no message; the sockets ready.
InitChat ==
    /\ InitHandlers
    /\ conversations = {[id |-> 1, user1Id |-> 1, user2Id |-> 2],
                        [id |-> 2, user1Id |-> 2, user2Id |-> 3]}
    /\ requests = <<>>
    /\ connections = {}
    /\ nextConnId = 1
    /\ uniqueConnections = FALSE
    /\ RoadIdle
    /\ AcctIdle
    /\ messages = <<>>
    /\ chatResp = NoChatResp
    /\ SocketsReady
    /\ sendLoc = NoSend
    /\ outbox = <<>>

\* The writers of the messages table, and the socket mark-read event.  The
\* receiver and the content of a socket message play no part in what is
\* written: they are user 2, a participant of both conversations, and one
\* character.
NextChat ==
    \/ \E conversationId \in 0..2, senderId \in 0..NChatUsers,
          hasContent \in BOOLEAN :
          PostMessage(conversationId, senderId, hasContent)
    \/ \E conversationId \in 0..2, userId \in 0..NChatUsers :
          MarkRead(conversationId, userId)
    \/ \E s \in Sockets, conversationId \in ConversationIds,
          dbOk \in BOOLEAN :
          SendInsert(s, conversationId, 2, 1, dbOk)
    \/ SendUpdate
    \/ SendDbError
    \/ \E s \in Sockets, conversationId \in ConversationIds :
          SocketMarkRead(s, conversationId)

SpecChat == InitChat /\ [][NextChat]_vars

\* One conversation, (1, 2); no message; the sockets ready.
InitDelivery ==
    /\ InitHandlers
    /\ conversations = {[id |-> 1, user1Id |-> 1, user2Id |-> 2]}
    /\ requests = <<>>
    /\ connections = {}
    /\ nextConnId = 1
    /\ uniqueConnections = FALSE
    /\ RoadIdle
    /\ AcctIdle
    /\ messages = <<>>
    /\ chatResp = NoChatResp
    /\ SocketsReady
    /\ sendLoc = NoSend
    /\ outbox = <<>>

\* The socket events of a conversation: rooms, sending, typing.
NextDelivery ==
    \/ \E s \in Sockets, conversationId \in ConversationIds :
          JoinConversation(s, conversationId)
    \/ \E s \in Sockets, conversationId \in ConversationIds :
          LeaveConversation(s, conversationId)
    \/ \E s \in Sockets, conversationId \in ConversationIds,
          receiverId \in ChatUsers, length \in ContentLengths,
          dbOk \in BOOLEAN :
          SendInsert(s, conversationId, receiverId, length, dbOk)
    \/ SendUpdate
    \/ SendDbError
    \/ \E s \in Sockets, conversationId \in ConversationIds :
          Typing(s, conversationId)
    \/ \E s \in Sockets, conversationId \in ConversationIds :
          SocketMarkRead(s, conversationId)

SpecDelivery == InitDelivery /\ [][NextDelivery]_vars

\* No socket connected; connections, authentications and disconnections.
InitPresence ==
    /\ CoreIdle
    /\ RoadIdle
    /\ AcctIdle
    /\ ChatIdle

\* The sockets and the user ids the presence run is explored with.
PresenceSockets == {"s1", "s2"}
PresenceUsers == 1..NUsers

NextPresence ==
    \/ \E s \in PresenceSockets : Connect(s)
    \/ \E s \in PresenceSockets, userId \in PresenceUsers,
          hasInfo, redisOk \in BOOLEAN :
          Authenticate(s, userId, hasInfo, redisOk)
    \/ \E s \in PresenceSockets : SocketDisconnect(s)

SpecPresence == InitPresence /\ [][NextPresence]_vars

\* Account creation: POST /register and the Google callback, from an empty
\* users table.
InitUsers ==
    /\ CoreIdle
    /\ RoadIdle
    /\ ChatIdle
    /\ AcctIdle

NextUsers ==
    \/ \E p \in Procs, hasNames \in BOOLEAN, username \in Usernames,
          password \in Passwords :
          Register(p, hasNames, username, password)
    \/ \E p \in Procs : RegisterInsert(p)
    \/ \E p \in Procs, hasCode \in BOOLEAN, infoOk \in BOOLEAN,
          googleId \in GoogleIds, email \in Emails,
          picture \in GooglePictures :
          GoogleCallback(p, hasCode, infoOk, googleId, email, picture)
    \/ \E p \in Procs : GoogleUpdate(p)
    \/ \E p \in Procs : GoogleInsert(p)

SpecUsers == InitUsers /\ [][NextUsers]_vars

\* Pictures and project images: one user, registered locally or through
\* Google, who owns one project without an image.
InitStorage ==
    /\ CoreIdle
    /\ RoadIdle
    /\ ChatIdle
    /\ users \in {<<NewLocalUser("ann", BcryptHash("pw"))>>,
                  <<NewGoogleUser("g1", "a@x", GooglePicture(1))>>}
    /\ projects = <<[userId |-> 1, imageUrl |-> NoPicture, imageKey |-> 0]>>
    /\ blobs = {}
    /\ nextKey = 1
    /\ acctPc = [p \in Procs |-> "idle"]
    /\ acctLoc = [p \in Procs |-> NoAcct]
    /\ acctResp = NoAcctResp

NextStorage ==
    \/ \E p \in Procs, userId \in UserIds, fileOk \in BOOLEAN :
          UploadPicture(p, userId, fileOk)
    \/ \E p \in Procs, deleted \in BOOLEAN : UploadPictureDeleteOld(p, deleted)
    \/ \E p \in Procs, uploaded \in BOOLEAN : UploadPictureUpload(p, uploaded)
    \/ \E p \in Procs : UploadPictureUpdate(p)
    \/ \E p \in Procs, userId \in UserIds : DeletePicture(p, userId)
    \/ \E p \in Procs, deleted \in BOOLEAN : DeletePictureDelete(p, deleted)
    \/ \E p \in Procs : DeletePictureUpdate(p)
    \/ \E p \in Procs, userId \in UserIds : RevertGoogle(p, userId)
    \/ \E p \in Procs, deleted \in BOOLEAN : RevertGoogleDelete(p, deleted)
    \/ \E p \in Procs : RevertGoogleUpdate(p)
    \/ \E p \in Procs, projectId \in 0..2, fileOk \in BOOLEAN :
          UploadImage(p, projectId, fileOk)
    \/ \E p \in Procs, deleted \in BOOLEAN : UploadImageDeleteOld(p, deleted)
    \/ \E p \in Procs, uploaded \in BOOLEAN : UploadImageUpload(p, uploaded)
    \/ \E p \in Procs : UploadImageUpdate(p)

SpecStorage == InitStorage /\ [][NextStorage]_vars

\* --------------------------------------------------------- claims: roadmaps

\* C11: a successful POST /roadmaps/:id/start for a roadmap that has N tasks
\* creates one userRoadmap row and exactly N progress rows for it, one per
\* task of the roadmap, each with status pending.
C11_StartCreatesPendingRows ==
    [][\A p \in StartProcs :
          /\ (startPc[p] = "start_insert" /\ startPc'[p] = "start_tasks")
                => /\ Len(userRoadmaps') = Len(userRoadmaps) + 1
                   /\ startLoc'[p].userRoadmapId = Len(userRoadmaps')
                   /\ userRoadmaps'[Len(userRoadmaps')] =
                         [userId |-> startLoc[p].userId,
                          roadmapId |-> startLoc[p].roadmapId]
          /\ (startPc[p] = "start_tasks" /\ startPc'[p] = "start_progress")
                => /\ userRoadmaps' = userRoadmaps
                   /\ startLoc'[p].tasks =
                         {t.id : t \in TasksOf(startLoc[p].roadmapId)}
          /\ (startPc[p] = "start_progress" /\ roadResp'.op = "start"
                 /\ roadResp'.status = 200)
                => LET ur == startLoc[p].userRoadmapId
                       added == userTaskProgress' \ userTaskProgress
                   IN /\ userRoadmaps' = userRoadmaps
                      /\ userTaskProgress \subseteq userTaskProgress'
                      /\ ProgressOf(ur) = {}
                      /\ Cardinality(added) = Cardinality(startLoc[p].tasks)
                      /\ \A t \in startLoc[p].tasks :
                            [userId |-> startLoc[p].userId, taskId |-> t,
                             userRoadmapId |-> ur, status |-> "pending"]
                               \in added]_vars

\* C11 witness: a start has just answered 200 for a roadmap of three tasks;
\* its userRoadmap holds three pending progress rows.
C11_Witness ==
    /\ roadResp.op = "start" /\ roadResp.status = 200
    /\ Len(userRoadmaps) = 1
    /\ Cardinality(ProgressOf(1)) = 3
    /\ \A r \in ProgressOf(1) : r.status = "pending"

\* C12: for a started roadmap, whenever every progress row of the user for
\* it is completed, GET /roadmaps/users/:userId reports progressPercentage
\* 100, and whenever none is completed it reports 0, also after an admin
\* created a task in the roadmap.  Stated for the reports whose totalTasks
\* is the roadmap's current number of tasks (no write overlapped the GET).
C12_AllCompletedIsHundred ==
    (/\ roadResp.op = "progress"
     /\ roadResp.totalTasks = Cardinality(
           TasksOf(userRoadmaps[roadResp.userRoadmapId].roadmapId))) =>
        LET rows == ProgressOf(roadResp.userRoadmapId)
        IN /\ (rows # {} /\ \A r \in rows : r.status = "completed")
                 => roadResp.progressPercentage = 100
           /\ (\A r \in rows : r.status # "completed")
                 => roadResp.progressPercentage = 0

\* C13: with total > 0 tasks of which k progress rows of the user are
\* completed, the reported progressPercentage is k*100/total rounded to the
\* nearest integer, and it is 0 when total = 0.
C13_PercentageRounded ==
    [][/\ (getLoc = NoGet /\ getLoc' # NoGet)
             => getLoc'.total = Cardinality(
                   TasksOf(userRoadmaps[getLoc'.userRoadmapId].roadmapId))
       /\ (roadResp'.op = "progress")
             => LET k == Cardinality(CompletedOf(getLoc.userRoadmapId))
                    total == getLoc.total
                    pct == roadResp'.progressPercentage
                    diff == k * 100 - pct * total
                IN /\ roadResp'.completedTasks = k
                   /\ roadResp'.totalTasks = total
                   /\ total = 0 => pct = 0
                   /\ total > 0 =>
                         /\ 2 * diff <= total
                         /\ 2 * (-diff) <= total]_vars

\* C13 witness: two of three tasks completed is reported as 67.
C13_Witness ==
    /\ roadResp.op = "progress"
    /\ roadResp.completedTasks = 2
    /\ roadResp.totalTasks = 3
    /\ roadResp.progressPercentage = 67

\* --------------------------------------------------------- claims: messages

\* C14: PUT /messages/read with (conversationId, userId = X) never changes
\* the read flag of a message whose sender is X; it sets isRead to true
\* exactly for the unread messages of that conversation sent by someone
\* other than X.
C14_MarkReadSparesOwnMessages ==
    [][(chatResp'.op = "read" /\ chatResp'.status = 200) =>
       \A c \in ConversationIds, X \in ChatUsers :
          MarkRead(c, X) =>
             /\ Len(messages') = Len(messages)
             /\ \A i \in 1..Len(messages) :
                   LET m == messages[i]
                   IN /\ m.senderId = X => messages'[i] = m
                      /\ messages'[i] =
                            IF /\ m.conversationId = c
                               /\ ~m.isRead
                               /\ m.senderId # X
                            THEN [m EXCEPT !.isRead = TRUE] ELSE m]_vars

\* C14 witness: a mark-read has just answered 200; in one conversation a
\* message of one user is read and a message of the other user is unread.
C14_Witness ==
    /\ chatResp.op = "read" /\ chatResp.status = 200
    /\ \E i, j \in 1..Len(messages) :
          /\ messages[i].conversationId = messages[j].conversationId
          /\ messages[i].senderId # messages[j].senderId
          /\ messages[i].isRead
          /\ ~messages[j].isRead

\* C15: the read flag is one-way: once isRead is true no HTTP route and no
\* socket event sets it back to false, and a mark-read for conversation c
\* changes no message of another conversation.
C15_ReadFlagOneWay ==
    [][/\ Len(messages) <= Len(messages')
       /\ \A i \in 1..Len(messages) :
             messages[i].isRead => messages'[i].isRead
       /\ (chatResp'.op = "read" /\ chatResp'.status = 200) =>
             \A c \in ConversationIds, X \in ChatUsers :
                MarkRead(c, X) =>
                   \A i \in 1..Len(messages) :
                      messages[i].conversationId # c
                         => messages'[i] = messages[i]
       /\ (messages' # messages) =>
             \A s \in Sockets, c \in ConversationIds :
                ~SocketMarkRead(s, c)]_vars

\* C15 witness: a mark-read has just answered 200; a message of one
\* conversation is read while a message of the same sender in the other
\* conversation is still unread.
C15_Witness ==
    /\ chatResp.op = "read" /\ chatResp.status = 200
    /\ \E i, j \in 1..Len(messages) :
          /\ messages[i].conversationId # messages[j].conversationId
          /\ messages[i].senderId = messages[j].senderId
          /\ messages[i].isRead
          /\ ~messages[j].isRead

\* C16: every persisted message has a sender who is one of the two
\* participants of its conversation, whether it came through POST /messages
\* or through the socket send-message event.
C16_SenderIsParticipant ==
    \A i \in 1..Len(messages) :
        IsParticipant(messages[i].conversationId, messages[i].senderId)

\* ---------------------------------------------------------- claims: sockets

\* C17: a new-message or message-notification event is emitted for a message
\* only after its row has been persisted; if the insert fails, no such event
\* is emitted for it and the sender receives an error event.
C17_PersistBeforeEmit ==
    [][/\ \A i \in 1..Len(outbox') :
             outbox'[i].event \in {"new-message", "message-notification"}
                => /\ outbox'[i].messageId \in 1..Len(messages)
                   /\ messages' = messages
       /\ \A s \in Sockets, c \in ConversationIds, r \in ChatUsers,
             n \in ContentLengths :
             (SendInsert(s, c, r, n, FALSE) /\ sockUser[s] # 0 /\ sockInfo[s])
                => /\ messages' = messages
                   /\ sendLoc' = NoSend
                   /\ outbox' = <<[to |-> s, event |-> "error",
                                   messageId |-> 0, preview |-> NoPreview]>>]_vars

\* C17 witness: the events of the last message inserted have just been
\* emitted, a new-message among them.
C17_Witness ==
    \E i \in 1..Len(outbox) :
        /\ outbox[i].event = "new-message"
        /\ outbox[i].messageId = Len(messages)

\* C18: for each sent message no socket receives it more than once: never
\* both new-message and message-notification for the same message, nor
\* either event twice.
C18_AtMostOnce ==
    \A i, j \in 1..Len(outbox) :
        (/\ i < j
         /\ outbox[i].event \in {"new-message", "message-notification"}
         /\ outbox[j].event \in {"new-message", "message-notification"}
         /\ outbox[i].messageId = outbox[j].messageId)
           => outbox[i].to # outbox[j].to

\* C19: when a message is sent to a receiver who has an authenticated
\* connected session outside the conversation's room, that session receives
\* a message-notification whose preview is the first 50 characters of the
\* content, followed by '...' only when the content is longer.
C19_NotificationToEverySession ==
    [][SendUpdate =>
          \A x \in Sockets :
             (/\ Connected(x)
              /\ sockUser[x] = sendLoc.receiverId
              /\ sendLoc.conversationId \notin convRooms[x])
                => \E i \in 1..Len(outbox') :
                      /\ outbox'[i].to = x
                      /\ outbox'[i].event = "message-notification"
                      /\ outbox'[i].messageId = sendLoc.messageId
                      /\ outbox'[i].preview.chars =
                            (IF sendLoc.length > PreviewLength
                             THEN PreviewLength ELSE sendLoc.length)
                      /\ outbox'[i].preview.ellipsis =
                            (sendLoc.length > PreviewLength)]_vars

\* C20: isUserOnline(u) is true exactly when at least one currently
\* connected socket is authenticated as u, also when one user authenticates
\* on several sockets and one of them disconnects.  Stated for the states in
\* which no socket has ever authenticated under two user ids.
C20_OnlineIffConnected ==
    (\A s \in Sockets : Cardinality(authedAs[s]) <= 1) =>
        \A u \in ChatUsers :
            IsUserOnline(u) <=> \E s \in Sockets : Connected(s) /\ sockUser[s] = u

\* C21: once every socket that ever authenticated as user u has
\* disconnected, isUserOnline(u) is false and the presence map holds no
\* entry for u, also when a socket authenticated as u and later
\* re-authenticated under a different user id before disconnecting.
C21_DisconnectClearsPresence ==
    \A u \in ChatUsers :
        (\A s \in Sockets : u \in authedAs[s] => ~Connected(s))
           => /\ ~IsUserOnline(u)
              /\ onlineUsers[u] = "none"

\* C22: every users row inserted by POST /register or by the Google
\* callback holds, in the step that creates it, both a username and a
\* password hash, or a Google id.
C22_CredentialsAtCreation ==
    [][Len(users') > Len(users)
          => LET row == users'[Len(users')]
             IN \/ row.username # "" /\ row.password # ""
                \/ row.googleId # ""]_vars

\* Both kinds of row have been created: one by POST /register, holding the
\* hash of the password, and one by the Google callback.
C22_Witness ==
    /\ \E i \in UserRowIds : /\ users[i].username # ""
                             /\ users[i].password = BcryptHash("pw")
                             /\ users[i].googleId = ""
    /\ \E i \in UserRowIds : /\ users[i].username = ""
                             /\ users[i].googleId # ""

C28_PictureKeyNamesBlob ==
    (\A p \in Procs : acctPc[p] = "idle")
       => \A i \in UserRowIds :
             users[i].profilePictureKey # 0
                => users[i].profilePictureKey \in blobs

\* C24: DELETE /connections/disconnect leaves every connection request as
\* it is, so an accepted request stays accepted; answered 200, it has
\* removed every Connection row of one pair of users.  POST
\* /connections/request is refused with 409 only for a Connection row or a
\* pending request of the pair, never for an accepted request, so after the
\* disconnect a new request between the two users can be sent.
C24_DisconnectKeepsRequests ==
    [][/\ resp'.op = "disconnect"
          => /\ requests' = requests
             /\ resp'.status = 200
                   => \E a, b \in Users :
                        LET between == {c \in connections :
                                           {c.user1Id, c.user2Id} = {a, b}}
                        IN /\ a # b
                           /\ between # {}
                           /\ connections' = connections \ between
       /\ resp'.op = "request" /\ resp'.status = 409
          => \E p \in Procs :
               /\ pc[p] \in {"req_connected", "req_pending"}
               /\ pc'[p] = "idle"
               /\ \/ \E c \in connections :
                        {c.user1Id, c.user2Id}
                           = {loc[p].senderId, loc[p].receiverId}
                  \/ \E i \in DOMAIN requests :
                        /\ requests[i].status = "pending"
                        /\ {requests[i].senderId, requests[i].receiverId}
                              = {loc[p].senderId, loc[p].receiverId}]_vars

\* After a disconnect: the request that created the connection is still
\* accepted, no Connection row joins the two users, and a new request
\* between them has just been stored as pending.
C24_Witness ==
    /\ resp.op = "request"
    /\ resp.status = 200
    /\ \E i, j \in DOMAIN requests :
          /\ i < j
          /\ requests[i].wasAccepted
          /\ requests[i].status = "accepted"
          /\ requests[j].status = "pending"
          /\ {requests[j].senderId, requests[j].receiverId}
                = {requests[i].senderId, requests[i].receiverId}
          /\ ~\E c \in connections :
                {c.user1Id, c.user2Id}
                   = {requests[i].senderId, requests[i].receiverId}

\* C26: in every reachable state the connections table holds at most one
\* row per unordered pair of users.
C26_OneConnectionPerPair ==
    \A c, d \in connections :
        {c.user1Id, c.user2Id} = {d.user1Id, d.user2Id} => c.id = d.id

\* C25: a connected socket that has not authenticated is in no conversation
\* room; its join-conversation leaves it outside the room and emits error
\* to it alone, its send-message stores no message, starts no broadcast and
\* emits error to it alone, and its typing and mark-read emit nothing.
C25_UnauthenticatedShutOut ==
    [][\A s \in Sockets :
          sockUser[s] = 0 /\ Connected(s)
             => LET refused == <<[to |-> s, event |-> "error",
                                  messageId |-> 0, preview |-> NoPreview]>>
                IN /\ convRooms[s] = {}
                   /\ \A c \in ConversationIds :
                         JoinConversation(s, c)
                            => convRooms'[s] = {} /\ outbox' = refused
                   /\ \A c \in ConversationIds, r \in ChatUsers,
                         n \in ContentLengths, dbOk \in BOOLEAN :
                         SendInsert(s, c, r, n, dbOk)
                            => /\ messages' = messages
                               /\ sendLoc' = sendLoc
                               /\ outbox' = refused
                   /\ \A c \in ConversationIds :
                         Typing(s, c) \/ SocketMarkRead(s, c)
                            => outbox' = <<>>]_vars

\* The unauthenticated socket s3 has just been refused with an error, while
\* the authenticated socket s1 sits in the room of conversation 1 and a
\* message is stored: s3 is in no room.
C25_Witness ==
    /\ sockUser["s3"] = 0
    /\ outbox = <<[to |-> "s3", event |-> "error", messageId |-> 0,
                   preview |-> NoPreview]>>
    /\ 1 \in convRooms["s1"]
    /\ convRooms["s3"] = {}
    /\ Len(messages) = 1

\* C27: a socket is in the room of conversation c, where it receives the
\* new-message events of c, only if the user it authenticated as is one of
\* the two participants of c.
C27_RoomsHoldParticipantsOnly ==
    \A s \in Sockets :
        \A c \in convRooms[s] : IsParticipant(c, sockUser[s])

\* C29: POST /roadmaps/:id/start is all-or-nothing: a call that is answered
\* with a failure, because the user already has the roadmap or because the
\* insert of the progress rows fails, has added no user_roadmaps row and no
\* progress row.
C29_StartAllOrNothing ==
    [][\A p \in StartProcs :
          (/\ roadResp'.op = "start"
           /\ roadResp'.status # 200
           /\ startPc[p] \in {"idle", "start_progress"}
           /\ startPc'[p] = "idle")
             => /\ startLoc[p].userRoadmapId = 0
                /\ userRoadmaps' = userRoadmaps
                /\ userTaskProgress' = userTaskProgress]_vars

\* C30: in every reachable state each user_task_progress row has a status
\* in {pending, in_progress, completed}.
C30_StatusInDomain ==
    \A r \in userTaskProgress :
        r.status \in {"pending", "in_progress", "completed"}

====
